---- MODULE Spec2Model ----
(***************************************************************************)
(* Model of the Minaret azan scheduler and playback state machine          *)
(* (custom_components/azan/__init__.py): one config entry's store, the     *)
(* host's point-in-time timers, the _play_azan coroutines suspended on an  *)
(* external service call, and the coordinator refreshes in flight.         *)
(*                                                                         *)
(* Time is the minute of the current day, 0 .. DayLen-1.  Every instant    *)
(* (an event's time, a wake-up's target) is written relative to today's    *)
(* midnight, so the midnight tick subtracts DayLen from every armed        *)
(* wake-up and ages the table by one day.  A wake-up runs at its point in  *)
(* time: no minute passes while one is due.  The point in time of a        *)
(* playback reset is not tracked: once armed it may run at any instant.    *)
(***************************************************************************)
EXTENDS Integers, Sequences, FiniteSets, Bags, TLC

\* ---------------------------------------------------------------- bounds
DayLen == 5            \* minutes in the (shortened) day
MaxTasks == 2          \* _play_azan coroutines that may exist at once
MaxRefresh == 1        \* coordinator refreshes that may be in flight at once

\* ------------------------------------------------------ program constants
RolloverMinute == 1    \* replace(hour=0, minute=1, ...) of the midnight refresh

\* ------------------------------------------------------------ input sets
TestName == "Test"
PrayerNames == {"Fajr", "Dhuhr"}
SERVICE_PLAY_SCHEMA == PrayerNames \cup {TestName}
PLAYBACK_MEDIA_PLAYER == "media_player"
PLAYBACK_ANDROID_VLC == "android_vlc"
None == "None"

Prayer(n, t, e) == [name |-> n, time |-> t, enabled |-> e]

\* The event lists the time-table provider may serve: in chronological order,
\* with a disabled event, not in chronological order, empty, all disabled.
SortedTable == <<Prayer("Fajr", 2, TRUE), Prayer("Dhuhr", 4, TRUE)>>
ProviderTables ==
    { SortedTable,
      <<Prayer("Fajr", 2, FALSE), Prayer("Dhuhr", 4, TRUE)>>,
      <<Prayer("Dhuhr", 4, TRUE), Prayer("Fajr", 2, TRUE)>>,
      << >>,
      <<Prayer("Fajr", 4, FALSE)>> }

\* {**entry.data, **entry.options}: the offset, the playback mode, and whether
\* the mode's target (CONF_MEDIA_PLAYER, CONF_NOTIFY_SERVICE) is configured.
DefaultConfig == [offset |-> 1, mode |-> PLAYBACK_MEDIA_PLAYER, sink |-> TRUE]
Configs ==
    { DefaultConfig,
      [offset |-> 0, mode |-> PLAYBACK_ANDROID_VLC, sink |-> TRUE],
      [offset |-> 1, mode |-> PLAYBACK_MEDIA_PLAYER, sink |-> FALSE] }

\* A freshly fetched table: today's events, nothing played yet.
NewData(prayers) == [prayers |-> prayers, played_today |-> {}, age |-> 0]

\* ----------------------------------------------------------------- state
VARIABLES
    now,                  \* dt_util.now(), minute of the current day
    provider,             \* the event list the provider serves for a day
    config,               \* {**entry.data, **entry.options}
    entryState,           \* "loaded", "unloading", "unloaded", "unload_failed"
    data,                 \* coordinator.data
    is_playing,           \* store["is_playing"]
    currently_playing,    \* store["currently_playing"]
    unsub_timer,          \* store["unsub_timer"]
    playback_reset_unsub, \* store["playback_reset_unsub"]
    wakeArmed,            \* wake-up callbacks the host has armed
    resetArmed,           \* reset callbacks the host has armed
    tasks,                \* bag of _play_azan coroutines: created or awaiting a call
    refreshing,           \* coordinator.async_refresh() calls in flight
    playCount             \* playbacks issued per real name on the current table

vars == <<now, provider, config, entryState, data, is_playing, currently_playing,
          unsub_timer, playback_reset_unsub, wakeArmed, resetArmed, tasks,
          refreshing, playCount>>

\* Timer handles.  NoHandle is Python's None; DeadHandle is the unsub of a
\* timer that has already run or was cancelled (calling it does nothing).
Timer(k, n, t) == [kind |-> k, name |-> n, at |-> t]
NoHandle == Timer("none", None, 0)
DeadHandle == Timer("dead", None, 0)

Task(pc, n) == [pc |-> pc, name |-> n]
Add(bag, task) == bag (+) SetToBag({task})
Remove(bag, task) == bag (-) SetToBag({task})

\* hass.data[DOMAIN].get(entry.entry_id) finds the store until the unload pops it.
StoreExists == entryState # "unloaded"

\* ------------------------------------------------------------ scheduling
\* target_time = prayer_time - timedelta(minutes=offset_minutes), for an event
\* of a table fetched `age` days ago.
TargetTime(prayer, age, offset) == prayer.time - age * DayLen - offset

\* Variant of Qualifies: the loop does not skip the played prayers.
QualifiesPlayed(prayer, played, age, offset, nw) ==
    /\ prayer.enabled
    /\ TargetTime(prayer, age, offset) > nw

\* The body of the selection loop for one prayer: does the loop break on it?
Qualifies(prayer, played, age, offset, nw) ==
    /\ prayer.enabled
    /\ prayer.name \notin played
    /\ TargetTime(prayer, age, offset) > nw

\* The selection loop from index i on: the index it breaks at, 0 for None.
RECURSIVE FindNext(_, _, _, _, _)
FindNext(dat, offset, nw, i, n) ==
    IF i > n THEN 0
    ELSE IF Qualifies(dat.prayers[i], dat.played_today, dat.age, offset, nw) THEN i
    ELSE FindNext(dat, offset, nw, i + 1, n)

NextPrayer(dat, offset, nw) == FindNext(dat, offset, nw, 1, Len(dat.prayers))

\* Variant of Tomorrow: the rollover is put at 00:00 of the next day.
TomorrowMidnight == DayLen

\* tomorrow = (now + 1 day).replace(hour=0, minute=1, ...)
Tomorrow == DayLen + RolloverMinute

\* Variant of Cancel: unsub() leaves the timer armed.
CancelNothing(handle, armed) == armed

\* unsub(): the host forgets the timer the handle stands for.
Cancel(handle, armed) == armed \ {handle}

\* The timer _schedule_next_prayer arms for a table, an offset and a now.
TimerFor(dat, offset, nw) ==
    LET i == NextPrayer(dat, offset, nw)
    IN  IF i = 0 THEN Timer("rollover", None, Tomorrow)
        ELSE Timer("prayer", dat.prayers[i].name,
                   TargetTime(dat.prayers[i], dat.age, offset))

\* _schedule_next_prayer: the store's handle and the host's armed wake-ups
\* after the call, given them before it.
ScheduleNextPrayer(exists, dat, offset, nw, handle, armed) ==
    IF ~exists THEN [handle |-> handle, armed |-> armed]
    ELSE LET tmr == TimerFor(dat, offset, nw)
             kept == IF handle # NoHandle THEN Cancel(handle, armed) ELSE armed
         IN  [handle |-> tmr, armed |-> kept \cup {tmr}]

\* -------------------------------------------------------------- playback
\* Variant of AlreadyPlayed: the guard lets every call through.
AlreadyPlayedNever(name, dat) == FALSE

\* The duplicate guard of _play_azan: a real name that is already played.
AlreadyPlayed(name, dat) == name # TestName /\ name \in dat.played_today

\* Variant of MarkPlayed: the synthetic name is recorded like a real one.
MarkPlayedAny(name, played) == played \cup {name}

\* Variant of MarkPlayed: the name is not recorded before the call.
MarkPlayedNever(name, played) == played

\* played_today after the guard let the call through: a real name is added.
MarkPlayed(name, played) == IF name # TestName THEN played \cup {name} ELSE played

\* Variant of PlayOutcome: the audio file is not checked.
PlayOutcomeAnyAudio(name, audioOk) ==
    IF ~StoreExists THEN "no_store"
    ELSE IF AlreadyPlayed(name, data) THEN "duplicate"
    ELSE IF ~config.sink THEN "no_sink"
    ELSE IF config.mode = PLAYBACK_MEDIA_PLAYER THEN "play"
    ELSE "screen_on"

\* How far the synchronous part of _play_azan gets: where it returns, or the
\* external call it suspends on.
PlayOutcome(name, audioOk) ==
    IF ~StoreExists THEN "no_store"
    ELSE IF AlreadyPlayed(name, data) THEN "duplicate"
    ELSE IF ~audioOk THEN "no_audio"
    ELSE IF ~config.sink THEN "no_sink"
    ELSE IF config.mode = PLAYBACK_MEDIA_PLAYER THEN "play"
    ELSE "screen_on"

\* One more playback issued for a real name (counted up to 2).
Played(count, name) ==
    IF name \in PrayerNames
    THEN [count EXCEPT ![name] = IF @ < 2 THEN @ + 1 ELSE @]
    ELSE count

\* _play_azan from its first line to its first suspension or return; `rest`
\* are the other coroutines.
PlayAzan(name, audioOk, rest) ==
    LET out == PlayOutcome(name, audioOk)
        claimed == out \notin {"no_store", "duplicate"}
        marked == out \in {"no_sink", "play", "screen_on"}
        issued == out \in {"play", "screen_on"}
    IN  /\ data' = IF claimed
                   THEN [data EXCEPT !.played_today = MarkPlayed(name, @)]
                   ELSE data
        /\ is_playing' = IF marked THEN TRUE ELSE is_playing
        /\ currently_playing' = IF marked THEN name ELSE currently_playing
        /\ tasks' = IF issued THEN Add(rest, Task(out, name)) ELSE rest
        /\ playCount' = IF issued THEN Played(playCount, name) ELSE playCount
        /\ UNCHANGED <<now, provider, config, entryState, unsub_timer,
                       playback_reset_unsub, wakeArmed, resetArmed, refreshing>>

\* handle_play_azan: the play_azan service, awaited by the caller.
Trigger(name) ==
    /\ StoreExists
    /\ BagCardinality(tasks) < MaxTasks
    /\ \E audioOk \in BOOLEAN : PlayAzan(name, audioOk, tasks)

\* The task hass.async_create_task made of _play_azan starts running.
TaskStart(name) ==
    /\ BagIn(Task("created", name), tasks)
    /\ \E audioOk \in BOOLEAN :
          PlayAzan(name, audioOk, Remove(tasks, Task("created", name)))

\* Variant of PlayFailed: the except branch leaves the status as it is.
PlayFailedStaysPlaying(task) ==
    /\ tasks' = Remove(tasks, task)
    /\ UNCHANGED <<now, provider, config, entryState, data, is_playing,
                   currently_playing, unsub_timer, playback_reset_unsub, wakeArmed,
                   resetArmed, refreshing, playCount>>

\* Variant of PlayFailed: the except branch also takes the name out of played.
PlayFailedRollsBack(task) ==
    /\ is_playing' = FALSE
    /\ currently_playing' = None
    /\ tasks' = Remove(tasks, task)
    /\ data' = [data EXCEPT !.played_today = @ \ {task.name}]
    /\ UNCHANGED <<now, provider, config, entryState, unsub_timer,
                   playback_reset_unsub, wakeArmed, resetArmed, refreshing,
                   playCount>>

\* The except branch of _play_azan: the status goes back to idle and the
\* coroutine returns.
PlayFailed(task) ==
    /\ is_playing' = FALSE
    /\ currently_playing' = None
    /\ tasks' = Remove(tasks, task)
    /\ UNCHANGED <<now, provider, config, entryState, data, unsub_timer,
                   playback_reset_unsub, wakeArmed, resetArmed, refreshing,
                   playCount>>

\* Android VLC mode: the command_screen_on call resolves; on success the
\* coroutine issues the command_activity call that launches the audio.
ScreenOnResolve(name, ok) ==
    /\ BagIn(Task("screen_on", name), tasks)
    /\ IF ok
       THEN /\ tasks' = Add(Remove(tasks, Task("screen_on", name)),
                            Task("play", name))
            /\ UNCHANGED <<now, provider, config, entryState, data, is_playing,
                           currently_playing, unsub_timer, playback_reset_unsub,
                           wakeArmed, resetArmed, refreshing, playCount>>
       ELSE PlayFailed(Task("screen_on", name))

\* The reset timer _play_azan arms once its call went through, bound to the
\* coroutine's prayer_name.
ResetTimer(name) == Timer("reset", name, 0)

\* The last external call resolves.  On success the coroutine cancels the
\* stored reset timer, arms its own and calls _schedule_next_prayer.
PlayResolve(name, ok) ==
    /\ BagIn(Task("play", name), tasks)
    /\ IF ok
       THEN LET tmr == ResetTimer(name)
                kept == IF playback_reset_unsub # NoHandle
                        THEN Cancel(playback_reset_unsub, resetArmed)
                        ELSE resetArmed
                sched == ScheduleNextPrayer(StoreExists, data, config.offset, now,
                                            unsub_timer, wakeArmed)
            IN  /\ resetArmed' = kept \cup {tmr}
                /\ playback_reset_unsub' = tmr
                /\ unsub_timer' = sched.handle
                /\ wakeArmed' = sched.armed
                /\ tasks' = Remove(tasks, Task("play", name))
                /\ UNCHANGED <<now, provider, config, entryState, data, is_playing,
                               currently_playing, refreshing, playCount>>
       ELSE PlayFailed(Task("play", name))

\* Variant of ResetApplies: _reset_playing resets whatever is playing.
ResetAppliesAlways(name, current) == TRUE

\* The guard of _reset_playing.
ResetApplies(name, current) == current = name

\* A handle after the host ran its timer: the unsub is still stored, dead.
AfterFire(handle, t) == IF handle = t THEN DeadHandle ELSE handle

\* _reset_playing runs.
ResetFire(t) ==
    /\ t \in resetArmed
    /\ resetArmed' = resetArmed \ {t}
    /\ playback_reset_unsub' = AfterFire(playback_reset_unsub, t)
    /\ is_playing' = IF ResetApplies(t.name, currently_playing) THEN FALSE
                      ELSE is_playing
    /\ currently_playing' = IF ResetApplies(t.name, currently_playing) THEN None
                             ELSE currently_playing
    /\ UNCHANGED <<now, provider, config, entryState, data, unsub_timer, wakeArmed,
                   tasks, refreshing, playCount>>

\* Variant of Stop: _stop_playback also cancels the armed wake-up.
StopCancelsWakeUp(ok) ==
    /\ StoreExists
    /\ is_playing' = FALSE
    /\ currently_playing' = None
    /\ wakeArmed' = {}
    /\ unsub_timer' = NoHandle
    /\ UNCHANGED <<now, provider, config, entryState, data, playback_reset_unsub,
                   resetArmed, tasks, refreshing, playCount>>

\* _stop_playback: the status goes idle, then the external stop call is made;
\* its outcome `ok` changes nothing in the store.
Stop(ok) ==
    /\ StoreExists
    /\ is_playing' = FALSE
    /\ currently_playing' = None
    /\ UNCHANGED <<now, provider, config, entryState, data, unsub_timer,
                   playback_reset_unsub, wakeArmed, resetArmed, tasks, refreshing,
                   playCount>>

\* ----------------------------------------------------------- wake-ups
\* Variant of PrayerCallback: the wake-up does not look at played_today.
PrayerCallbackNoGuard(t) ==
    /\ t \in wakeArmed
    /\ t.kind = "prayer"
    /\ t.at <= now
    /\ BagCardinality(tasks) < MaxTasks
    /\ unsub_timer' = AfterFire(unsub_timer, t)
    /\ wakeArmed' = wakeArmed \ {t}
    /\ tasks' = Add(tasks, Task("created", t.name))
    /\ UNCHANGED <<now, provider, config, entryState, data, is_playing,
                   currently_playing, playback_reset_unsub, resetArmed, refreshing,
                   playCount>>

\* _prayer_callback: the wake-up bound to a prayer runs at its point in time.
PrayerCallback(t) ==
    /\ t \in wakeArmed
    /\ t.kind = "prayer"
    /\ t.at <= now
    /\ IF t.name \in data.played_today
       THEN LET sched == ScheduleNextPrayer(StoreExists, data, config.offset, now,
                                            AfterFire(unsub_timer, t),
                                            wakeArmed \ {t})
            IN  /\ unsub_timer' = sched.handle
                /\ wakeArmed' = sched.armed
                /\ UNCHANGED tasks
       ELSE /\ BagCardinality(tasks) < MaxTasks
            /\ unsub_timer' = AfterFire(unsub_timer, t)
            /\ wakeArmed' = wakeArmed \ {t}
            /\ tasks' = Add(tasks, Task("created", t.name))
    /\ UNCHANGED <<now, provider, config, entryState, data, is_playing,
                   currently_playing, playback_reset_unsub, resetArmed, refreshing,
                   playCount>>

InFlight == refreshing.manual + refreshing.midnight

\* _midnight_refresh: the rollover wake-up runs: it makes a task of
\* coordinator.async_refresh() and calls _schedule_next_prayer.
MidnightRefresh(t) ==
    /\ t \in wakeArmed
    /\ t.kind = "rollover"
    /\ t.at <= now
    /\ InFlight < MaxRefresh
    /\ LET sched == ScheduleNextPrayer(StoreExists, data, config.offset, now,
                                       AfterFire(unsub_timer, t), wakeArmed \ {t})
       IN  /\ unsub_timer' = sched.handle
           /\ wakeArmed' = sched.armed
    /\ refreshing' = [refreshing EXCEPT !.midnight = @ + 1]
    /\ UNCHANGED <<now, provider, config, entryState, data, is_playing,
                   currently_playing, playback_reset_unsub, resetArmed, tasks,
                   playCount>>

\* ---------------------------------------------------------------- refresh
\* handle_refresh_times up to its await of coordinator.async_refresh().
RefreshTimes ==
    /\ StoreExists
    /\ InFlight < MaxRefresh
    /\ refreshing' = [refreshing EXCEPT !.manual = @ + 1]
    /\ UNCHANGED <<now, provider, config, entryState, data, is_playing,
                   currently_playing, unsub_timer, playback_reset_unsub, wakeArmed,
                   resetArmed, tasks, playCount>>

\* coordinator.async_refresh() resolves: a fetched table replaces the current
\* one wholesale; a failed fetch keeps it.
AsyncRefresh(dat, ok, prayers) == IF ok THEN NewData(prayers) ELSE dat

\* A refresh in flight resolves.  The service handler then calls
\* _schedule_next_prayer; the task of the rollover wake-up just ends.
RefreshResolve(kind, ok) ==
    /\ refreshing[kind] > 0
    /\ refreshing' = [refreshing EXCEPT ![kind] = @ - 1]
    /\ data' = AsyncRefresh(data, ok, provider)
    /\ playCount' = IF ok THEN [n \in PrayerNames |-> 0] ELSE playCount
    /\ IF kind = "manual"
       THEN LET sched == ScheduleNextPrayer(StoreExists, data', config.offset, now,
                                            unsub_timer, wakeArmed)
            IN  /\ unsub_timer' = sched.handle
                /\ wakeArmed' = sched.armed
       ELSE UNCHANGED <<unsub_timer, wakeArmed>>
    /\ UNCHANGED <<now, provider, config, entryState, is_playing,
                   currently_playing, playback_reset_unsub, resetArmed, tasks>>

\* ----------------------------------------------------------------- unload
\* async_unload_entry up to its await: both stored timers are cancelled.
UnloadEntry ==
    /\ entryState = "loaded"
    /\ entryState' = "unloading"
    /\ wakeArmed' = IF unsub_timer # NoHandle THEN Cancel(unsub_timer, wakeArmed)
                     ELSE wakeArmed
    /\ resetArmed' = IF playback_reset_unsub # NoHandle
                      THEN Cancel(playback_reset_unsub, resetArmed) ELSE resetArmed
    /\ unsub_timer' = IF unsub_timer # NoHandle THEN DeadHandle ELSE NoHandle
    /\ playback_reset_unsub' = IF playback_reset_unsub # NoHandle THEN DeadHandle
                                ELSE NoHandle
    /\ UNCHANGED <<now, provider, config, data, is_playing, currently_playing,
                   tasks, refreshing, playCount>>

\* async_unload_platforms resolves: on success the store is popped.
UnloadResolve(unloaded) ==
    /\ entryState = "unloading"
    /\ entryState' = IF unloaded THEN "unloaded" ELSE "unload_failed"
    /\ UNCHANGED <<now, provider, config, data, is_playing, currently_playing,
                   unsub_timer, playback_reset_unsub, wakeArmed, resetArmed, tasks,
                   refreshing, playCount>>

\* ------------------------------------------------------------------- time
Shift(t) == IF t.kind \in {"prayer", "rollover"} THEN [t EXCEPT !.at = @ - DayLen]
            ELSE t

\* A minute passes, unless a wake-up is due.
Tick ==
    /\ \A t \in wakeArmed : t.at > now
    /\ IF now + 1 < DayLen
       THEN /\ now' = now + 1
            /\ UNCHANGED <<data, unsub_timer, wakeArmed>>
       ELSE /\ now' = 0
            /\ data' = [data EXCEPT !.age = 1]
            /\ unsub_timer' = Shift(unsub_timer)
            /\ wakeArmed' = {Shift(t) : t \in wakeArmed}
    /\ UNCHANGED <<provider, config, entryState, is_playing, currently_playing,
                   playback_reset_unsub, resetArmed, tasks, refreshing, playCount>>

\* ------------------------------------------------------------------- spec
\* async_setup_entry has run: the first refresh fetched a table, the store
\* holds its defaults and _schedule_next_prayer armed the first wake-up.
Setup(prayers, cfg) ==
    /\ now = 0
    /\ provider = prayers
    /\ config = cfg
    /\ entryState = "loaded"
    /\ data = NewData(prayers)
    /\ is_playing = FALSE
    /\ currently_playing = None
    /\ unsub_timer = ScheduleNextPrayer(TRUE, data, cfg.offset, 0, NoHandle, {}).handle
    /\ wakeArmed = ScheduleNextPrayer(TRUE, data, cfg.offset, 0, NoHandle, {}).armed
    /\ playback_reset_unsub = NoHandle
    /\ resetArmed = {}
    /\ tasks = EmptyBag
    /\ refreshing = [manual |-> 0, midnight |-> 0]
    /\ playCount = [n \in PrayerNames |-> 0]

\* Every provider table under the default configuration, and every
\* configuration on the sorted table.
Init ==
    \E prayers \in ProviderTables, cfg \in Configs :
        /\ prayers = SortedTable \/ cfg = DefaultConfig
        /\ Setup(prayers, cfg)

Next ==
    \/ Tick
    \/ \E name \in SERVICE_PLAY_SCHEMA : Trigger(name)
    \/ \E name \in PrayerNames : TaskStart(name)
    \/ \E name \in SERVICE_PLAY_SCHEMA, ok \in BOOLEAN : ScreenOnResolve(name, ok)
    \/ \E name \in SERVICE_PLAY_SCHEMA, ok \in BOOLEAN : PlayResolve(name, ok)
    \/ \E t \in resetArmed : ResetFire(t)
    \/ \E ok \in BOOLEAN : Stop(ok)
    \/ \E t \in wakeArmed : PrayerCallback(t)
    \/ \E t \in wakeArmed : MidnightRefresh(t)
    \/ RefreshTimes
    \/ \E kind \in {"manual", "midnight"}, ok \in BOOLEAN : RefreshResolve(kind, ok)

Spec == Init /\ [][Next]_vars

\* ----------------------------------------------------------------- claims
Loaded == entryState = "loaded"

\* The wake-up the scheduler owes for the current table, offset and now, as
\* the specification words it: the first event in list order that is enabled,
\* not played and whose offset-adjusted time is after now; else the rollover.
ScheduledTime(i) == data.prayers[i].time - data.age * DayLen
Eligible(i) ==
    /\ data.prayers[i].enabled
    /\ data.prayers[i].name \notin data.played_today
    /\ ScheduledTime(i) - config.offset > now
FirstEligible(i) == Eligible(i) /\ \A j \in 1..(i - 1) : ~Eligible(j)
NoneEligible == \A i \in 1..Len(data.prayers) : ~Eligible(i)
OwedWakeUp(t) ==
    \/ /\ NoneEligible
       /\ t = [kind |-> "rollover", name |-> None, at |-> DayLen + 1]
    \/ \E i \in 1..Len(data.prayers) :
          /\ FirstEligible(i)
          /\ t = [kind |-> "prayer", name |-> data.prayers[i].name,
                  at |-> ScheduledTime(i) - config.offset]

\* C1: at-most-once: on one table, however manual triggers, the timer-driven
\* fire and their overlap with a call in flight interleave, the playback sink
\* is asked to play a real event name at most once.
C1_AtMostOnce == \A n \in PrayerNames : playCount[n] <= 1

\* C1 witness: Fajr was played once, its call is still in flight, and the
\* task of the timer-driven fire for Fajr is about to run into the guard.
C1_Witness ==
    /\ playCount["Fajr"] = 1
    /\ BagIn(Task("play", "Fajr"), tasks)
    /\ BagIn(Task("created", "Fajr"), tasks)

\* A _play_azan coroutine that was created or suspended ends in this step.
TriggerCompletes == BagCardinality(tasks') < BagCardinality(tasks)

\* C2: always reschedules: when a trigger call completes, on whichever path,
\* the single armed wake-up is the one owed: bound to the next eligible event
\* if one remains today, the rollover otherwise.
C2_AlwaysReschedules ==
    [][(Loaded /\ TriggerCompletes) => (\E t \in wakeArmed' : OwedWakeUp(t)')]_vars

\* C3: the scheduler never stops ticking: a loaded instance with no trigger
\* and no refresh in progress has exactly one wake-up armed.
C3_NeverStopsTicking ==
    (Loaded /\ tasks = EmptyBag /\ InFlight = 0) => Cardinality(wakeArmed) = 1

\* C4: single outstanding timers: at most one wake-up and at most one
\* playback reset are armed, whatever was armed before.
C4_SingleTimers == Cardinality(wakeArmed) <= 1 /\ Cardinality(resetArmed) <= 1

\* C4 witness: both kinds were re-armed: the wake-up now armed is Dhuhr's
\* (Fajr's was armed first) and the reset now armed is Dhuhr's while Fajr and
\* Dhuhr were both played on this table.
C4_Witness ==
    /\ playCount["Fajr"] = 1 /\ playCount["Dhuhr"] = 1
    /\ resetArmed = {ResetTimer("Dhuhr")}
    /\ Cardinality(wakeArmed) = 1
    /\ tasks = EmptyBag

\* A refresh in flight resolves in this step and the fetched table is current.
RefreshReplaces == InFlight' < InFlight /\ data' = NewData(provider)

\* C5: a table replacement is followed by a re-schedule against the new
\* table: once a refresh (manual, or the rollover's) has completed, the armed
\* wake-up is the one owed for the new table.
C5_RefreshReschedules ==
    [][(Loaded /\ RefreshReplaces) => (\E t \in wakeArmed' : OwedWakeUp(t)')]_vars

\* _schedule_next_prayer runs in this step: after a playback call went
\* through, in the wake-up of an already played event, in the rollover
\* wake-up, or after the manual refresh.
SchedulingStep ==
    \/ \E name \in SERVICE_PLAY_SCHEMA : PlayResolve(name, TRUE)
    \/ \E t \in wakeArmed : PrayerCallback(t) /\ t.name \in data.played_today
    \/ \E t \in wakeArmed : MidnightRefresh(t)
    \/ \E ok \in BOOLEAN : RefreshResolve("manual", ok)

\* C6: scheduleNext selection: the wake-up armed by a scheduling step is at
\* (scheduled_time - offset) of the first event in list order that is enabled,
\* not played and whose offset-adjusted time is after now, bound to its name.
C6_Selection ==
    [][SchedulingStep =>
        \A i \in 1..Len(data'.prayers) :
            FirstEligible(i)' =>
                wakeArmed' = {[kind |-> "prayer", name |-> data'.prayers[i].name,
                               at |-> ScheduledTime(i)' - config'.offset]}]_vars

\* C6 witness: Fajr is unplayed and nominally still ahead, but its
\* offset-adjusted time is not after now: the wake-up armed is Dhuhr's.
C6_Witness ==
    /\ data = NewData(SortedTable)
    /\ config.offset = 1 /\ now = 1
    /\ wakeArmed = {[kind |-> "prayer", name |-> "Dhuhr", at |-> 3]}

\* C7: rollover scheduling: a scheduling step that finds no eligible event
\* arms the wake-up at 00:01 of the next day, bound to the refresh; and the
\* rollover wake-up, when it runs, issues no playback.
C7_Rollover ==
    [][/\ (SchedulingStep /\ NoneEligible') =>
            wakeArmed' = {[kind |-> "rollover", name |-> None, at |-> DayLen + 1]}
       /\ (\E t \in wakeArmed : MidnightRefresh(t)) =>
            /\ playCount' = playCount
            /\ tasks' = tasks
            /\ is_playing' = is_playing
            /\ currently_playing' = currently_playing]_vars

\* C7 witness: every event of today's table is played and the rollover is
\* armed for 00:01 of the next day.
C7_Witness ==
    /\ data.age = 0
    /\ data.played_today = {"Fajr", "Dhuhr"}
    /\ wakeArmed = {[kind |-> "rollover", name |-> None, at |-> DayLen + 1]}
    /\ now = 0

\* A trigger begins in this step (a play_azan call or the task of a wake-up
\* enters _play_azan), or stop_playback is called.
TriggerBegins ==
    \/ \E name \in SERVICE_PLAY_SCHEMA : Trigger(name)
    \/ \E name \in PrayerNames : TaskStart(name)
    \/ \E ok \in BOOLEAN : Stop(ok)

\* C8: the playback lifecycle returns to idle: once no further trigger begins
\* and nothing calls stop, a status of playing is always followed by idle,
\* through the reset timeout alone, whatever the interleaving of the triggers
\* before and the outcome of their external calls.
C8_ReturnsToIdle == <>[][~TriggerBegins]_vars => (is_playing ~> ~is_playing)

\* C9: no stale reset: a reset timer bound to X that runs while the status is
\* not playing(X) changes nothing; it resets the status only from playing(X).
C9_NoStaleReset ==
    [][\A t \in resetArmed :
        ResetFire(t) =>
            IF is_playing /\ currently_playing = t.name
            THEN ~is_playing' /\ currently_playing' = None
            ELSE UNCHANGED <<is_playing, currently_playing, data, unsub_timer,
                             wakeArmed, tasks, playCount>>]_vars

\* C9 witness: the status is still playing(Test) with no call in flight,
\* although the last reset timer armed has run: it was bound to another name.
C9_Witness ==
    /\ config.sink
    /\ is_playing /\ currently_playing = "Test"
    /\ tasks = EmptyBag
    /\ playback_reset_unsub = DeadHandle
    /\ resetArmed = {}

\* The external call of a coroutine for `name` fails in this step.
CallFails(name) == PlayResolve(name, FALSE) \/ ScreenOnResolve(name, FALSE)

\* C10: playback failure policy: when the external call fails for a real
\* event, the status is idle at once, nothing is taken out of played, and a
\* name that is in played gets no further playback on that table.
C10_FailurePolicy ==
    [][/\ \A name \in PrayerNames :
            CallFails(name) =>
                /\ ~is_playing' /\ currently_playing' = None
                /\ data'.played_today = data.played_today
       /\ \A name \in PrayerNames :
            (name \in data.played_today /\ name \in data'.played_today) =>
                playCount'[name] = playCount[name]]_vars

\* C10 witness: Fajr was claimed and its playback issued, the coroutine has
\* ended and no reset timer was ever armed: the call failed; the status is
\* idle and Fajr is still in played.
C10_Witness ==
    /\ playCount["Fajr"] = 1
    /\ "Fajr" \in data.played_today
    /\ tasks = EmptyBag
    /\ playback_reset_unsub = NoHandle
    /\ ~is_playing

\* stop_playback is called in this step.
StopCalled == \E ok \in BOOLEAN : Stop(ok)

\* C11: explicit stop cancels the reset timer: after stop() the status is
\* idle and no playback-reset timer remains armed.
C11_StopCancelsReset ==
    [][StopCalled => (~is_playing' /\ currently_playing' = None /\ resetArmed' = {})]_vars

\* C12: stop() does not touch scheduling: across a stop() call, whether the
\* external stop call succeeds or fails, the armed wake-up, its bound event,
\* the table and the played set are unchanged; only the status changes.
C12_StopFrame ==
    [][StopCalled =>
        /\ UNCHANGED <<wakeArmed, unsub_timer, data, tasks, playCount, refreshing,
                       resetArmed, playback_reset_unsub>>
        /\ ~is_playing' /\ currently_playing' = None]_vars

\* C12 witness: two playback calls are in flight, no reset timer was ever
\* armed, and yet the status is idle: stop() ran after the second trigger;
\* the wake-up armed at setup is still armed.
C12_Witness ==
    /\ ~is_playing /\ currently_playing = None
    /\ tasks = SetToBag({Task("play", "Fajr"), Task("play", "Dhuhr")})
    /\ playback_reset_unsub = NoHandle
    /\ data.played_today = {"Fajr", "Dhuhr"}
    /\ wakeArmed = {[kind |-> "prayer", name |-> "Fajr", at |-> 1]}

\* The external playback sequences issued for Test and not yet resolved.
TestCalls(bag) ==
    CopiesIn(Task("play", TestName), bag) + CopiesIn(Task("screen_on", TestName), bag)

\* play_azan(Test) is called in this step; in TestPlayable the audio file
\* exists and the mode's playback target is configured.
TestTriggered == Trigger(TestName)
TestPlayable ==
    /\ StoreExists
    /\ BagCardinality(tasks) < MaxTasks
    /\ config.sink
    /\ PlayAzan(TestName, TRUE, tasks)

\* C13 as stated: every trigger("Test") call issues exactly one playback and
\* leaves played as it is.
C13_TestAlwaysPlays ==
    [][TestTriggered =>
        (TestCalls(tasks') = TestCalls(tasks) + 1 /\ data' = data)]_vars

\* C13: Test triggers are repeatable: every trigger("Test") call whose audio
\* resolves and whose playback target is configured issues exactly one
\* playback, whatever came before and whatever played holds; no
\* trigger("Test") call changes played, and "Test" is never in played.
C13_TestRepeatable ==
    /\ [](TestName \notin data.played_today)
    /\ [][TestPlayable =>
            (TestCalls(tasks') = TestCalls(tasks) + 1 /\ data' = data)]_vars
    /\ [][TestTriggered => data' = data]_vars

\* C13 witness: two playbacks of Test are in flight at once, with both real
\* events already played.
C13_Witness ==
    /\ TestCalls(tasks) = 2
    /\ data.played_today = {"Fajr", "Dhuhr"}

\* _play_azan(name) runs in this step, called by the service or as the task
\* of a wake-up, and finds no audio file.
AudioUnavailable(name) ==
    \/ /\ StoreExists
       /\ BagCardinality(tasks) < MaxTasks
       /\ PlayAzan(name, FALSE, tasks)
    \/ /\ BagIn(Task("created", name), tasks)
       /\ PlayAzan(name, FALSE, Remove(tasks, Task("created", name)))

\* C14: audio unavailable: a trigger that resolves no audio returns without
\* setting the status to playing and without a playback call, while the name
\* of a real event is in played after it (claimed, not rolled back).
C14_AudioUnavailable ==
    [][\A name \in SERVICE_PLAY_SCHEMA :
        AudioUnavailable(name) =>
            /\ is_playing' = is_playing
            /\ currently_playing' = currently_playing
            /\ playCount' = playCount
            /\ \A pc \in {"play", "screen_on"}, n \in SERVICE_PLAY_SCHEMA :
                   CopiesIn(Task(pc, n), tasks') = CopiesIn(Task(pc, n), tasks)
            /\ data.played_today \subseteq data'.played_today
            /\ name \in PrayerNames => name \in data'.played_today]_vars

\* C14 witness: with a playback target configured, Fajr is in played although
\* no playback was issued for it on this table, and the status is idle.
C14_Witness ==
    /\ config.sink
    /\ "Fajr" \in data.played_today
    /\ playCount["Fajr"] = 0
    /\ ~is_playing
    /\ tasks = EmptyBag

\* Event i has the least offset-adjusted time among the eligible events.
EarliestEligible(i) ==
    /\ Eligible(i)
    /\ \A j \in 1..Len(data.prayers) :
          Eligible(j) => ScheduledTime(i) <= ScheduledTime(j)

\* C15: scan-for-minimum policy: for every event list, chronological or
\* not, the wake-up armed by a scheduling step is at the minimum
\* offset-adjusted time over the enabled, unplayed events that are after now.
C15_ScanForMinimum ==
    [][SchedulingStep =>
        \A i \in 1..Len(data'.prayers) :
            EarliestEligible(i)' =>
                \E t \in wakeArmed' :
                    /\ t.kind = "prayer"
                    /\ t.at = ScheduledTime(i)' - config'.offset]_vars

\* No external playback call is unresolved.
NoCallInFlight ==
    \A pc \in {"play", "screen_on"}, n \in SERVICE_PLAY_SCHEMA :
        ~BagIn(Task(pc, n), tasks)

\* C16: superseding playback: once the requests in flight have completed, the
\* status is playing(name2) of the later request and the armed reset timer is
\* bound to name2, in whichever order the external calls resolved; a reset
\* timer bound to the superseded name is never the only one armed.
C16_Superseding ==
    (is_playing /\ NoCallInFlight /\ resetArmed # {}) =>
        resetArmed = {ResetTimer(currently_playing)}

\* An external playback sequence for `name` is issued in this step.
CallIssued(name) ==
    CopiesIn(Task("play", name), tasks') + CopiesIn(Task("screen_on", name), tasks')
        > CopiesIn(Task("play", name), tasks) + CopiesIn(Task("screen_on", name), tasks)

\* C17: ordering within a trigger: the name of a real event is in played by
\* the time its external call is issued, the step that issues a call does not
\* schedule, and the trigger's scheduleNext runs when its call has resolved,
\* arming no event that is in played.
C17_Ordering ==
    [][\A name \in PrayerNames :
        /\ CallIssued(name) =>
              (name \in data'.played_today /\ UNCHANGED <<wakeArmed, unsub_timer>>)
        /\ PlayResolve(name, TRUE) =>
              /\ CopiesIn(Task("play", name), tasks')
                   = CopiesIn(Task("play", name), tasks) - 1
              /\ \A t \in wakeArmed' :
                    t.kind = "prayer" => t.name \notin data'.played_today]_vars

\* C17 witness: Fajr's call went through (its reset timer is armed), Fajr is
\* in played and the wake-up armed by that trigger is Dhuhr's.
C17_Witness ==
    /\ config = DefaultConfig
    /\ data.prayers = SortedTable
    /\ "Fajr" \in data.played_today /\ playCount["Fajr"] = 1
    /\ resetArmed = {ResetTimer("Fajr")}
    /\ wakeArmed = {[kind |-> "prayer", name |-> "Dhuhr", at |-> 3]}
    /\ tasks = EmptyBag

\* Every task a wake-up created has entered _play_azan.
NoTaskPending == \A n \in PrayerNames : ~BagIn(Task("created", n), tasks)

\* C18: arming is not delayed by the external call: while a playback call is
\* unresolved, whether issued for a wake-up or by the service, a wake-up timer
\* is armed, so a call that is slow or never returns does not leave the
\* instance without one.
C18_ArmingNotDelayed ==
    (Loaded /\ ~NoCallInFlight /\ NoTaskPending) => wakeArmed # {}

\* A fetched table replaces the current one in this step.
TableReplaced == \E kind \in {"manual", "midnight"} : RefreshResolve(kind, TRUE)

\* _play_azan(name) is entered in this step.
Triggered(name) ==
    \/ Trigger(name)
    \/ name \in PrayerNames /\ TaskStart(name)

\* C19: the played set is monotone per table: in every step that does not
\* replace the table played only grows, and a name is added only by a trigger
\* of that name, which is the name of a real event.
C19_PlayedMonotone ==
    [][/\ ~TableReplaced => data.played_today \subseteq data'.played_today
       /\ ~TableReplaced =>
            \A n \in data'.played_today \ data.played_today :
                n \in PrayerNames /\ Triggered(n)]_vars

\* C19 witness: both names are still in played past midnight, after the
\* reset timer has run, while the table has not been replaced.
C19_Witness ==
    /\ data.age = 1
    /\ data.played_today = {"Fajr", "Dhuhr"}
    /\ playback_reset_unsub = DeadHandle
    /\ ~is_playing

\* C20: wake-up for an already played event: when the wake-up bound to X
\* runs and X is in played, no playback is issued, the status and played are
\* unchanged, and the wake-up owed next (next eligible event, or rollover) is
\* armed in the same step.
C20_PlayedWakeUp ==
    [][\A t \in wakeArmed :
        (PrayerCallback(t) /\ t.name \in data.played_today) =>
            /\ UNCHANGED <<tasks, playCount, is_playing, currently_playing, data,
                           resetArmed>>
            /\ \E u \in wakeArmed' : wakeArmed' = {u} /\ OwedWakeUp(u)']_vars

\* C20 witness: Fajr was claimed by a manual trigger that found no audio, so
\* nothing re-scheduled; at Fajr's minute the wake-up armed is Dhuhr's.
C20_Witness ==
    /\ config = DefaultConfig
    /\ data = [NewData(SortedTable) EXCEPT !.played_today = {"Fajr"}]
    /\ playCount["Fajr"] = 0
    /\ playback_reset_unsub = NoHandle
    /\ now = 1
    /\ wakeArmed = {[kind |-> "prayer", name |-> "Dhuhr", at |-> 3]}
    /\ tasks = EmptyBag

\* The host runs what is due and external calls resolve: timers fire, created
\* tasks start, calls and refreshes in flight return, time passes.
Fairness ==
    /\ WF_vars(Tick)
    /\ WF_vars(\E t \in resetArmed : ResetFire(t))
    /\ WF_vars(\E t \in wakeArmed : PrayerCallback(t))
    /\ WF_vars(\E t \in wakeArmed : MidnightRefresh(t))
    /\ WF_vars(\E name \in PrayerNames : TaskStart(name))
    /\ WF_vars(\E name \in SERVICE_PLAY_SCHEMA, ok \in BOOLEAN :
                    ScreenOnResolve(name, ok))
    /\ WF_vars(\E name \in SERVICE_PLAY_SCHEMA, ok \in BOOLEAN :
                    PlayResolve(name, ok))
    /\ WF_vars(\E kind \in {"manual", "midnight"}, ok \in BOOLEAN :
                    RefreshResolve(kind, ok))

LiveSpec == Init /\ [][Next]_vars /\ Fairness

\* ------------------------------------------------------------- unloading
\* The instance may also be unloaded: async_unload_entry runs once, from the
\* loaded state, on the sorted table in Android VLC mode (two external calls
\* per playback).
InitUnload ==
    \E cfg \in {c \in Configs : c.mode = PLAYBACK_ANDROID_VLC} :
        Setup(SortedTable, cfg)

NextUnload ==
    \/ Next
    \/ UnloadEntry
    \/ \E unloaded \in BOOLEAN : UnloadResolve(unloaded)

SpecUnload == InitUnload /\ [][NextUnload]_vars

\* C21: unload leaves nothing armed: once the instance is unloaded, no
\* wake-up timer and no playback-reset timer of it is armed in any later
\* state, also when a playback call was in flight at the unload and resolves
\* afterwards.
C21_UnloadLeavesNothingArmed ==
    entryState = "unloaded" => (wakeArmed = {} /\ resetArmed = {})

====
